---- MODULE Spec2Model ----
(***************************************************************************)
(* EvaluatorCallbackHandler (langchain/callbacks/tracers/evaluation.py):   *)
(* a tracer that submits one evaluation task per configured evaluator to a *)
(* thread pool whenever a run is persisted, keeps the futures in a set and *)
(* offers wait_for_futures as a join.                                      *)
(*                                                                         *)
(* Threads of the model: one submitting thread (the tracer's caller), the  *)
(* worker threads of the ThreadPoolExecutor, and the threads that call     *)
(* wait_for_futures.  Every step is one atomic access to the shared state  *)
(* (the futures set, the executor's work queue, a future's state).         *)
(***************************************************************************)
EXTENDS Integers, Sequences, FiniteSets, TLC

\* ---------------------------------------------------------------- bounds
MaxEvaluators == 2      \* len(evaluators) ranges over 0..MaxEvaluators
MaxRuns == 3            \* calls of _persist_run in one behaviour
MaxJoins == 2           \* calls of wait_for_futures in one behaviour
MaxTasks == 3           \* futures the executor creates in one behaviour

\* ---------------------------------------------------------------- values
None == "None"
Joiners == {1, 2}                        \* wait_for_futures calls that can be active at once
ProjectNames == {None, "evals"}          \* project_name: Optional[str]
ExampleIds == {None, "ex1"}              \* self.example_id: Optional[UUID]
\* the constructor's example_id argument: None, a UUID or the string form of one
ExampleArgs == {<<>>, <<"uuid", "ex1">>, <<"str", "ex1">>}
\* The runs the tracer is handed: outputs is None, {} ("empty") or a filled dict
\* ("some"); reference_example_id is what the caller's run carries.
RunInputs == {[outputs |-> None, reference_example_id |-> None],
              [outputs |-> "empty", reference_example_id |-> "ex0"],
              [outputs |-> "some", reference_example_id |-> "ex0"]}
MaxWorkersChoices == {<<>>, <<1>>}       \* max_workers: None (<<>>) or an int

VARIABLES
    evaluators,       \* self.evaluators: the sequence 1..evaluators of evaluator identities
    max_workers,      \* the constructor's max_workers argument
    skip_unfinished,  \* self.skip_unfinished
    project_name,     \* self.project_name
    example_id,       \* self.example_id
    futures,          \* self.futures: set of future ids
    tasks,            \* every future the executor created, by id: its arguments, state and the
                      \* evaluate_run calls made on its behalf
    queue,            \* the executor's work queue (future ids, FIFO)
    idle,             \* the idle worker threads: how many of them report to each destination
    pc,               \* the submitting thread's position in _persist_run
    run,              \* the run passed to the current (or last) _persist_run call
    run_,             \* the local copy run_ of that call
    i,                \* index of the for loop over self.evaluators
    fut,              \* the future returned by submit and not yet added to self.futures
    nCalls,           \* number of _persist_run calls so far
    pcJ,              \* per joiner: position in wait_for_futures
    snap,             \* per joiner: the local list futures (as a set)
    todo,             \* per joiner: the part of the list the removal loop has not reached
    nJoins,           \* number of wait_for_futures calls so far
    removed           \* futures that a self.futures.remove call has taken out

cfg == <<evaluators, max_workers, skip_unfinished, project_name, example_id>>
sub == <<pc, run, run_, i, fut, nCalls>>
pool == <<tasks, queue, idle>>
join == <<pcJ, snap, todo, nJoins>>
vars == <<cfg, sub, pool, join, futures, removed>>

\* ---------------------------------------------------------------- helpers
Max(a, b) == IF a >= b THEN a ELSE b

\* Python truthiness of Optional[int]: None and 0 are falsy.
TruthyInt(o) == o # <<>> /\ o[1] # 0

\* mutant: the max_workers argument is not used
PoolSizeOfEvaluators == Max(evaluators, 1)

\* max(max_workers or len(evaluators), 1)
PoolSize == Max(IF TruthyInt(max_workers) THEN max_workers[1] ELSE evaluators, 1)

\* The reporting destination of a thread: <<>> when no scope is entered, else the
\* project name and tag of the scope.
Baseline == <<>>
Destinations == {Baseline} \cup {<<p, "eval">> : p \in ProjectNames}

\* tracing_v2_enabled(project_name=..., tags=["eval"]) entered: the destination
\* inside the block
EnterScope(project, tag) == <<project, tag>>

\* the block left, normally or by an exception: the destination that was in
\* effect before it
ExitScope(prior, inside) == prior

\* the futures a worker thread is executing
Running == {t \in DOMAIN tasks : tasks[t].state = "running"}

InQueue(t) == \E k \in 1..Len(queue) : queue[k] = t

\* the futures whose work item a worker thread has taken from the queue and not
\* yet marked running
Taken == {t \in DOMAIN tasks : tasks[t].state = "pending" /\ ~InQueue(t)}

\* how an evaluate_run call can end: it returns (None), or raises an exception
\* that derives from Exception, or a BaseException that does not
Outcomes == {None, "Exception", "BaseException"}

\* `not run.outputs`: None and the empty dict are falsy.
NoOutputs(r) == r.outputs \in {None, "empty"}

\* mutant: the test on the outputs inverted (`and run.outputs`)
SkippedWithOutputs(r) == skip_unfinished /\ ~NoOutputs(r)

\* the guard of the early return of _persist_run
Skipped(r) == skip_unfinished /\ NoOutputs(r)

\* Lines 74-76: UUID(example_id) if isinstance(example_id, str) else example_id
ParseExampleId(a) == IF a = <<>> THEN None ELSE a[2]

\* mutant: the copy is made and its reference_example_id left as the caller set it
RunCopyUnset(r) == r

\* run.copy() followed by run_.reference_example_id = self.example_id
RunCopy(r) == [r EXCEPT !.reference_example_id = example_id]

NoRun == [id |-> 0, outputs |-> None, reference_example_id |-> None]

\* the runs of RunInputs, with the id the tracing framework gave the n-th of them
RunsWithId(n) == {[id |-> n, outputs |-> r.outputs,
                   reference_example_id |-> r.reference_example_id] : r \in RunInputs}

Terminal(t) == tasks[t].state \in {"completed", "failed"}

\* ---------------------------------------------------------------- Init
\* The state after __init__ (lines 73-84), for the constructor arguments drawn
\* from the given sets.
InitWith(counts, workers, skips, projects, examples) ==
    /\ evaluators \in counts
    /\ max_workers \in workers
    /\ skip_unfinished \in skips
    /\ project_name \in projects
    /\ example_id \in examples
    /\ futures = {}
    /\ tasks = <<>>
    /\ queue = <<>>
    /\ idle = [d \in Destinations |-> IF d = Baseline THEN PoolSize ELSE 0]
    /\ pc = "idle"
    /\ run = NoRun
    /\ run_ = NoRun
    /\ i = 0
    /\ fut = 0
    /\ nCalls = 0
    /\ pcJ = [j \in Joiners |-> "idle"]
    /\ snap = [j \in Joiners |-> {}]
    /\ todo = [j \in Joiners |-> {}]
    /\ nJoins = 0
    /\ removed = {}

\* Handlers that skip unfinished runs, with every number of evaluators; handlers
\* that dispatch every run, with no evaluator or with MaxEvaluators of them.
Init ==
    \/ InitWith(0..MaxEvaluators, MaxWorkersChoices, {TRUE}, ProjectNames, {"ex1"})
    \/ InitWith({0, MaxEvaluators}, MaxWorkersChoices, {FALSE}, ProjectNames, {"ex1"})

\* ---------------------------------------------------------------- _persist_run
\* mutant: no copy is made, reference_example_id is set on the caller's run
PersistRunInPlace(r) ==
    /\ pc = "idle"
    /\ nCalls < MaxRuns
    /\ Skipped(r) \/ Len(tasks) + evaluators <= MaxTasks
    /\ nCalls' = nCalls + 1
    /\ IF Skipped(r) \/ evaluators = 0
       THEN /\ pc' = "idle"
            /\ run' = IF Skipped(r) THEN r ELSE RunCopy(r)
            /\ UNCHANGED <<run_, i>>
       ELSE /\ run' = RunCopy(r)
            /\ run_' = run'
            /\ i' = 1
            /\ pc' = "submit"
    /\ UNCHANGED <<cfg, fut, pool, join, futures, removed>>

\* Lines 119-123, and the loop header of line 124 when there is no evaluator:
\* the early return, or the copy of the run.
PersistRun(r) ==
    /\ pc = "idle"
    /\ nCalls < MaxRuns
    /\ Skipped(r) \/ Len(tasks) + evaluators <= MaxTasks
    /\ nCalls' = nCalls + 1
    /\ run' = r
    /\ IF Skipped(r) \/ evaluators = 0
       THEN /\ pc' = "idle"
            /\ UNCHANGED <<run_, i>>
       ELSE /\ run_' = RunCopy(r)
            /\ i' = 1
            /\ pc' = "submit"
    /\ UNCHANGED <<cfg, fut, pool, join, futures, removed>>

\* The future submit creates for _evaluate_in_project(r, e): pending, no
\* evaluate_run call made and nothing logged yet; dest is the destination of the
\* worker thread once one runs it.
NewTask(r, e) ==
    [run |-> r, evaluator |-> e, state |-> "pending", calls |-> <<>>,
     logged |-> <<>>, dest |-> Baseline]

\* mutant: a submit that hands the work item to a free worker and waits for one
SubmitToFreeWorker ==
    /\ pc = "submit"
    /\ Cardinality(Running) + Len(queue) < PoolSize
    /\ tasks' = Append(tasks, NewTask(run_, i))
    /\ queue' = Append(queue, Len(tasks) + 1)
    /\ fut' = Len(tasks) + 1
    /\ pc' = "add"
    /\ UNCHANGED <<cfg, run, run_, i, nCalls, idle, join, futures, removed>>

\* Line 126: self.executor.submit(self._evaluate_in_project, run_, evaluator)
\* creates a pending future and puts the work item on the queue; it never waits.
Submit ==
    /\ pc = "submit"
    /\ tasks' = Append(tasks, NewTask(run_, i))
    /\ queue' = Append(queue, Len(tasks) + 1)
    /\ fut' = Len(tasks) + 1
    /\ pc' = "add"
    /\ UNCHANGED <<cfg, run, run_, i, nCalls, idle, join, futures, removed>>

\* mutant: the function returns after the first iteration of the loop
AddAndReturn ==
    /\ pc = "add"
    /\ futures' = futures \cup {fut}
    /\ fut' = 0
    /\ i' = 0 /\ run_' = NoRun /\ pc' = "idle"
    /\ UNCHANGED <<cfg, run, nCalls, pool, join, removed>>

\* Line 125: self.futures.add(<the future>), then the next iteration or the return.
Add ==
    /\ pc = "add"
    /\ futures' = futures \cup {fut}
    /\ fut' = 0
    /\ IF i < evaluators
       THEN i' = i + 1 /\ run_' = run_ /\ pc' = "submit"
       ELSE i' = 0 /\ run_' = NoRun /\ pc' = "idle"
    /\ UNCHANGED <<cfg, run, nCalls, pool, join, removed>>

\* ---------------------------------------------------------------- worker threads
\* A free worker thread (one of the idle ones, with the destination it reports
\* to) takes the next work item from the executor's queue.  The future of the
\* item is still pending: the thread has not marked it running yet.
WorkerGet ==
    /\ queue # <<>>
    /\ \E d \in Destinations :
          /\ idle[d] > 0
          /\ idle' = [idle EXCEPT ![d] = @ - 1]
          /\ tasks' = [tasks EXCEPT ![Head(queue)].dest = d]
    /\ queue' = Tail(queue)
    /\ UNCHANGED <<cfg, sub, join, futures, removed>>

\* The thread that took the work item marks its future running (nothing ever
\* cancels a future of the handler) and enters _evaluate_in_project(run_, evaluator).
SetRunning(t) ==
    /\ t \in Taken
    /\ tasks' = [tasks EXCEPT ![t].state = "running"]
    /\ UNCHANGED <<cfg, sub, queue, idle, join, futures, removed>>

\* One self.client.evaluate_run(run, evaluator) call as the tracer sees it: the
\* reporting scope it is made in (<<>> when none), its arguments and how it ended:
\* raised is None when the call returned, else the kind of the exception.
Call(t, scope, raised) ==
    [scope |-> scope, run |-> tasks[t].run, evaluator |-> tasks[t].evaluator,
     raised |-> raised]

\* the call returned
Ok(c) == c.raised = None

\* the last evaluate_run call made for the task raised, and the exception has not
\* reached the future yet
Raising(t) ==
    /\ t \in Running
    /\ tasks[t].calls # <<>>
    /\ ~Ok(tasks[t].calls[Len(tasks[t].calls)])

\* the kind of the exception on its way out of _evaluate_in_project
Exc(t) == tasks[t].calls[Len(tasks[t].calls)].raised

\* Lines 98-99: `if self.project_name is None: self.client.evaluate_run(...)`,
\* made in whatever destination the thread reports to.
\* There is no else: after a normal return the thread goes on to line 100.
EvaluateDirect(t, raised) ==
    /\ t \in Running
    /\ project_name = None
    /\ tasks[t].calls = <<>>
    /\ tasks' = [tasks EXCEPT ![t].calls = Append(@, Call(t, tasks[t].dest, raised))]
    /\ UNCHANGED <<cfg, sub, queue, idle, join, futures, removed>>

\* mutant: the scope is entered and left by plain calls around evaluate_run, so an
\* exception skips the exit
EvaluateScopedNoExitOnRaise(t, raised) ==
    /\ t \in Running
    /\ ~Raising(t)
    /\ Len(tasks[t].calls) = (IF project_name = None THEN 1 ELSE 0)
    /\ LET inside == EnterScope(project_name, "eval")
           after == IF raised = None THEN ExitScope(tasks[t].dest, inside) ELSE inside
       IN tasks' = [tasks EXCEPT ![t].calls = Append(@, Call(t, inside, raised)),
                                 ![t].dest = after]
    /\ UNCHANGED <<cfg, sub, queue, idle, join, futures, removed>>

\* Lines 100-101: `with tracing_v2_enabled(project_name=self.project_name,
\* tags=["eval"]): self.client.evaluate_run(...)`; the with statement leaves the
\* scope when the block ends, by a return or by an exception.  Reached when the
\* if of line 98 was not taken, or when its call returned.
EvaluateScoped(t, raised) ==
    /\ t \in Running
    /\ ~Raising(t)
    /\ Len(tasks[t].calls) = (IF project_name = None THEN 1 ELSE 0)
    /\ LET inside == EnterScope(project_name, "eval")
           after == ExitScope(tasks[t].dest, inside)
       IN tasks' = [tasks EXCEPT ![t].calls = Append(@, Call(t, inside, raised)),
                                 ![t].dest = after]
    /\ UNCHANGED <<cfg, sub, queue, idle, join, futures, removed>>

\* Line 102: `except Exception as e` catches the exceptions that derive from
\* Exception; any other BaseException passes the handler.
Caught(t) == Raising(t) /\ Exc(t) = "Exception"

\* Lines 103-107: logger.error with run.id and the evaluator's class, once; the
\* future is still running.
LogError(t) ==
    /\ Caught(t)
    /\ tasks[t].logged = <<>>
    /\ tasks' = [tasks EXCEPT ![t].logged =
                    Append(@, <<tasks[t].run.id, tasks[t].evaluator>>)]
    /\ UNCHANGED <<cfg, sub, queue, idle, join, futures, removed>>

\* The exception left _evaluate_in_project: the executor records it in the future.
Raised(t) == [tasks[t] EXCEPT !.state = "failed"]

\* Line 108 `raise e` after the log, or an exception the handler did not catch:
\* the exception reaches the executor, which sets it on the future; the thread
\* is idle again.
SetException(t) ==
    /\ Raising(t)
    /\ Caught(t) => tasks[t].logged # <<>>
    /\ tasks' = [tasks EXCEPT ![t] = Raised(t)]
    /\ idle' = [idle EXCEPT ![tasks[t].dest] = @ + 1]
    /\ UNCHANGED <<cfg, sub, queue, join, futures, removed>>

\* mutant: a failure recorded for one task of a run fails the run's later tasks
ReturnedUnlessSiblingFailed(t) ==
    [tasks[t] EXCEPT !.state = IF \E u \in DOMAIN tasks :
                                     /\ tasks[u].run.id = tasks[t].run.id
                                     /\ tasks[u].state = "failed"
                                 THEN "failed" ELSE "completed"]

\* The function returned: the executor records the result in the future.
Returned(t) == [tasks[t] EXCEPT !.state = "completed"]

\* The with block of lines 100-101 ended normally and _evaluate_in_project
\* returned None: the executor sets the result on the future; the thread is idle
\* again.
SetResult(t) ==
    /\ t \in Running
    /\ ~Raising(t)
    /\ Len(tasks[t].calls) = (IF project_name = None THEN 2 ELSE 1)
    /\ tasks' = [tasks EXCEPT ![t] = Returned(t)]
    /\ idle' = [idle EXCEPT ![tasks[t].dest] = @ + 1]
    /\ UNCHANGED <<cfg, sub, queue, join, futures, removed>>

\* ---------------------------------------------------------------- wait_for_futures
\* Line 131: futures = list(self.futures)
\* Calls are interchangeable: a new call takes the lowest slot that is not in use.
Active(j) == pcJ[j] \in {"waiting", "removing"}

JoinCall(j) ==
    /\ ~Active(j)
    /\ \A k \in Joiners : k < j => Active(k)
    /\ nJoins < MaxJoins
    /\ nJoins' = nJoins + 1
    /\ snap' = [snap EXCEPT ![j] = futures]
    /\ todo' = [todo EXCEPT ![j] = futures]
    /\ pcJ' = [pcJ EXCEPT ![j] = "waiting"]
    /\ UNCHANGED <<cfg, sub, pool, futures, removed>>

\* mutant: the wait is left out
WaitOmitted(j) == TRUE

\* mutant: a wait that does not return for an empty list
WaitDoneNonEmpty(j) == snap[j] # {} /\ \A t \in snap[j] : Terminal(t)

\* mutant: wait(futures, return_when=FIRST_COMPLETED)
WaitFirstDone(j) == snap[j] = {} \/ \E t \in snap[j] : Terminal(t)

\* mutant: the wait is on self.futures as it is now, not on the list taken at line 131
WaitRegistryDone(j) == \A t \in snap[j] \cup futures : Terminal(t)

\* Line 132: wait(futures) returns when every future of the list is done.
WaitDone(j) == \A t \in snap[j] : Terminal(t)

JoinWait(j) ==
    /\ pcJ[j] = "waiting"
    /\ WaitDone(j)
    /\ pcJ' = [pcJ EXCEPT ![j] = IF todo[j] = {} THEN "returned" ELSE "removing"]
    /\ UNCHANGED <<cfg, sub, pool, snap, todo, nJoins, futures, removed>>

\* Lines 133-134: one iteration `self.futures.remove(future)`; set.remove raises
\* KeyError when the element is not in the set.
JoinRemove(j, t) ==
    /\ pcJ[j] = "removing"
    /\ t \in todo[j]
    /\ IF t \in futures
       THEN /\ futures' = futures \ {t}
            /\ removed' = removed \cup {t}
            /\ todo' = [todo EXCEPT ![j] = @ \ {t}]
            /\ pcJ' = [pcJ EXCEPT ![j] = IF todo[j] = {t} THEN "returned" ELSE "removing"]
       ELSE /\ pcJ' = [pcJ EXCEPT ![j] = "raised"]
            /\ UNCHANGED <<futures, removed, todo>>
    /\ UNCHANGED <<cfg, sub, pool, snap, nJoins>>

\* ---------------------------------------------------------------- specification
Next ==
    \/ \E r \in RunsWithId(nCalls + 1) : PersistRun(r)
    \/ Submit
    \/ Add
    \/ WorkerGet
    \/ \E t \in Taken : SetRunning(t)
    \/ \E t \in Running, o \in Outcomes : EvaluateDirect(t, o)
    \/ \E t \in Running, o \in Outcomes : EvaluateScoped(t, o)
    \/ \E t \in Running : LogError(t)
    \/ \E t \in Running : SetException(t)
    \/ \E t \in Running : SetResult(t)
    \/ \E j \in Joiners : JoinCall(j)
    \/ \E j \in Joiners : JoinWait(j)
    \/ \E j \in Joiners : \E t \in todo[j] : JoinRemove(j, t)

Spec == Init /\ [][Next]_vars

\* The threads the handler owns or has started keep running: the executor's
\* workers (every evaluate_run call is taken to end), the submitting thread inside
\* _persist_run and a caller inside wait_for_futures.  Nothing obliges the tracing
\* framework to persist another run, or any caller to call wait_for_futures.
WorkerStep ==
    \/ WorkerGet
    \/ \E t \in Taken : SetRunning(t)
    \/ \E t \in Running, o \in Outcomes : EvaluateDirect(t, o)
    \/ \E t \in Running, o \in Outcomes : EvaluateScoped(t, o)
    \/ \E t \in Running : LogError(t) \/ SetException(t) \/ SetResult(t)

JoinStep == \E j \in Joiners : JoinWait(j) \/ \E t \in todo[j] : JoinRemove(j, t)

Fairness == WF_vars(WorkerStep) /\ WF_vars(Submit \/ Add) /\ WF_vars(JoinStep)

\* a handler with two evaluators that skips unfinished runs
FairInit == InitWith({MaxEvaluators}, MaxWorkersChoices, {TRUE}, ProjectNames, {"ex1"})

FairSpec == FairInit /\ [][Next]_vars /\ Fairness

\* Handlers with evaluators and the default pool, for every example_id argument:
\* the specification of the claims about the run copy.
DataInit ==
    InitWith({MaxEvaluators}, {<<>>}, BOOLEAN, ProjectNames,
             {ParseExampleId(a) : a \in ExampleArgs})

DataSpec == DataInit /\ [][Next]_vars

\* Handlers for every max_workers argument: none, 0 and overrides below and above
\* the number of evaluators.
PoolInit ==
    InitWith(0..MaxEvaluators, {<<>>, <<0>>, <<1>>, <<2>>}, {TRUE}, ProjectNames, {"ex1"})

PoolSpec == PoolInit /\ [][Next]_vars

\* ---------------------------------------------------------------- derived notions
\* the futures created for the run with identity id
TasksOf(id) == {t \in DOMAIN tasks : tasks[t].run.id = id}

\* the evaluate_run calls made so far with evaluator e and run r, as <<future, position>>
CallsOf(e, r) ==
    {c \in (DOMAIN tasks) \X (1..2) :
        /\ c[2] <= Len(tasks[c[1]].calls)
        /\ tasks[c[1]].calls[c[2]].evaluator = e
        /\ tasks[c[1]].calls[c[2]].run = r}

\* a run the submission gate lets through
Eligible(r) == r.outputs = "some" \/ ~skip_unfinished

\* ---------------------------------------------------------------- C1
\* C1: a _persist_run call for a run without outputs, with skip_unfinished set,
\* returns at once and changes neither the executor's futures and queue, nor the
\* evaluate_run calls made, nor self.futures.
C1_SkipChangesNothing ==
    [][(nCalls' = nCalls + 1 /\ skip_unfinished /\ run'.outputs \in {None, "empty"})
        => (pc' = "idle" /\ tasks' = tasks /\ queue' = queue /\ futures' = futures)]_vars

\* a run without outputs was skipped by a handler that has evaluators and a
\* non-empty registry
C1_Witness ==
    /\ skip_unfinished /\ evaluators >= 1
    /\ nCalls = 2 /\ pc = "idle" /\ run.outputs \in {None, "empty"}
    /\ futures # {}

\* ---------------------------------------------------------------- C2
\* C2: when _persist_run has returned for an eligible run, the executor holds
\* exactly one future per configured evaluator for that run, and each of them was
\* added to self.futures (it is there, or a wait_for_futures removed it),
\* whatever the state the futures are in.
C2_OneTaskPerEvaluator ==
    (pc = "idle" /\ nCalls >= 1 /\ Eligible(run)) =>
        /\ Cardinality(TasksOf(run.id)) = evaluators
        /\ \A e \in 1..evaluators : \E t \in TasksOf(run.id) : tasks[t].evaluator = e
        /\ TasksOf(run.id) \subseteq futures \cup removed
        /\ futures \cap removed = {}

\* an eligible run was dispatched to two evaluators; one task failed, one completed
C2_Witness ==
    /\ pc = "idle" /\ nCalls >= 1 /\ Eligible(run) /\ evaluators = 2
    /\ \E a, b \in TasksOf(run.id) :
          tasks[a].state = "failed" /\ tasks[b].state = "completed"

\* ---------------------------------------------------------------- C3
\* C3: when a wait_for_futures call has returned, every future of its snapshot is
\* done (completed or failed) and is not in self.futures.
C3_JoinedTasksDoneAndRemoved ==
    \A j \in Joiners :
        pcJ[j] = "returned" =>
            \A t \in snap[j] : Terminal(t) /\ t \notin futures

\* a join returned whose snapshot held a completed and a failed task
C3_Witness ==
    \E j \in Joiners :
        /\ pcJ[j] = "returned"
        /\ \E a, b \in snap[j] :
              tasks[a].state = "failed" /\ tasks[b].state = "completed"

\* ---------------------------------------------------------------- C4
\* C4: with two evaluators, after one finished run was submitted, its two tasks
\* completed and a join over them returned, self.futures is empty and each
\* evaluator's evaluate_run was called exactly once with the copy of the run,
\* whatever project_name is.
C4_EachEvaluatorOnce ==
    (/\ evaluators = 2 /\ nCalls = 1 /\ pc = "idle" /\ run.outputs = "some"
     /\ \E j \in Joiners : pcJ[j] = "returned" /\ snap[j] = {1, 2}
     /\ \A t \in DOMAIN tasks : tasks[t].state = "completed")
    => /\ futures = {}
       /\ \A e \in 1..2 : Cardinality(CallsOf(e, RunCopy(run))) = 1

\* ---------------------------------------------------------------- C5
\* C5: no wait_for_futures call ends with an exception, also when another call
\* has already removed a future of its snapshot.
C5_JoinNeverRaises == \A j \in Joiners : pcJ[j] # "raised"

\* ---------------------------------------------------------------- C7
\* C7: every future that is on the executor's queue or being run by a worker
\* is in self.futures.
C7_SubmittedIsRegistered ==
    \A t \in DOMAIN tasks :
        (InQueue(t) \/ tasks[t].state = "running") => t \in futures

\* ---------------------------------------------------------------- C6
\* a sibling of a failed task whose own evaluate_run calls all returned is
\* completed, and its calls were made with the run copy the failed task was given
C6_SiblingUnaffected ==
    \A a, b \in DOMAIN tasks :
        (/\ a # b /\ tasks[a].run.id = tasks[b].run.id
         /\ tasks[a].state = "failed" /\ Terminal(b)
         /\ \A k \in 1..Len(tasks[b].calls) : Ok(tasks[b].calls[k]))
        => /\ tasks[b].state = "completed"
           /\ \A k \in 1..Len(tasks[b].calls) : tasks[b].calls[k].run = tasks[a].run

\* once a task of a run has failed, every evaluator's task for that run gets done
C6_SiblingsFinish ==
    \A r \in 1..MaxRuns :
        (\E a \in TasksOf(r) : tasks[a].state = "failed")
        ~> (\A e \in 1..evaluators : \E b \in TasksOf(r) :
                tasks[b].evaluator = e /\ Terminal(b))

\* C6: when one task of a run has failed, every evaluator's task for that run still
\* reaches a terminal state; a sibling task whose own evaluate_run calls all
\* returned ends completed, not failed, and its calls were made with the run copy
\* the failed task was given.
C6_FailureIsolated == []C6_SiblingUnaffected /\ C6_SiblingsFinish

\* evaluator 1's task failed and evaluator 2's task of the same run completed
\* afterwards on the only worker of the pool
C6_Witness ==
    /\ PoolSize = 1 /\ Len(tasks) >= 2
    /\ tasks[1].run.id = tasks[2].run.id
    /\ tasks[1].state = "failed" /\ tasks[2].state = "completed"

\* ---------------------------------------------------------------- C8
\* C8: every future that is done is eventually not in self.futures, also in the
\* executions in which wait_for_futures is never called: a done future leads to
\* its absence from self.futures, or else to a first call of wait_for_futures.
C8_DoneEventuallyRemoved ==
    \A t \in 1..MaxTasks :
        (t \in DOMAIN tasks /\ Terminal(t)) ~> (t \notin futures \/ nJoins > 0)

\* ---------------------------------------------------------------- C9
\* a waiting call can go on as soon as the futures of its own snapshot are done
C9_ReturnsOnSnapshot ==
    \A j \in Joiners :
        (pcJ[j] = "waiting" /\ \A t \in snap[j] : Terminal(t)) => ENABLED JoinWait(j)

\* a step takes a future out of self.futures only as the removal loop of a call
\* whose snapshot holds it
C9_RemovesOnlySnapshot ==
    \A t \in futures \ futures' :
        \E j \in Joiners :
            pcJ[j] = "removing" /\ t \in snap[j] /\ todo'[j] = todo[j] \ {t}

\* C9: a wait_for_futures call can return as soon as the futures of its own
\* snapshot are done, whatever the state of the futures submitted later; and a
\* future leaves self.futures only by the removal loop of a call whose snapshot
\* holds it, so a future submitted after the snapshot stays unless another call
\* removes it.
C9_WaitsOnlyOnSnapshot == []C9_ReturnsOnSnapshot /\ [][C9_RemovesOnlySnapshot]_vars

\* a call returned while a future submitted after its snapshot is in the registry
\* and not done
C9_Witness ==
    \E j \in Joiners :
        /\ pcJ[j] = "returned" /\ snap[j] # {}
        /\ \E t \in futures : t \notin snap[j] /\ ~Terminal(t)

\* ---------------------------------------------------------------- C10
\* C10: inside _persist_run the submitting thread can always take its next step
\* (submit a task, add the future): no step of it waits for a worker.
C10_SubmissionNeverBlocks ==
    /\ pc = "submit" => ENABLED Submit
    /\ pc = "add" => ENABLED Add

\* _persist_run has returned while the only worker is busy, an earlier task is
\* still queued and the task of this run has not started
C10_Witness ==
    /\ pc = "idle" /\ Cardinality(Running) = PoolSize
    /\ Len(queue) >= 2
    /\ tasks[queue[1]].run.id < run.id
    /\ TasksOf(run.id) # {}
    /\ \A t \in TasksOf(run.id) : tasks[t].state = "pending"

\* ---------------------------------------------------------------- C11
\* C11: the run handed to _persist_run enters the call as the caller made it and
\* no step of the call, of its tasks or of a join changes it: its
\* reference_example_id is the caller's until the next call.
C11_OriginalRunUntouched ==
    [][/\ nCalls' # nCalls => run' \in RunsWithId(nCalls')
       /\ nCalls' = nCalls => run' = run]_vars

\* a run carrying its own reference was dispatched, its tasks are done and were
\* given a copy that carries the handler's example_id instead
C11_Witness ==
    /\ pc = "idle" /\ nCalls >= 1 /\ run.reference_example_id = "ex0"
    /\ TasksOf(run.id) # {}
    /\ \A t \in TasksOf(run.id) :
          Terminal(t) /\ tasks[t].run.reference_example_id # run.reference_example_id

\* ---------------------------------------------------------------- C19
\* C19: every evaluate_run call gets the run its task was submitted with, whose
\* reference_example_id is self.example_id (None when none is configured) and
\* whose other fields are the persisted run's; the tasks of one submission all
\* hold the same copy.
C19_CopyCarriesExampleId ==
    /\ \A t \in DOMAIN tasks : \A k \in 1..Len(tasks[t].calls) :
          /\ tasks[t].calls[k].run = tasks[t].run
          /\ tasks[t].calls[k].run.reference_example_id = example_id
    /\ \A t, u \in DOMAIN tasks :
          tasks[t].run.id = tasks[u].run.id => tasks[t].run = tasks[u].run
    /\ \A t \in TasksOf(run.id) :
          /\ tasks[t].run.reference_example_id = example_id
          /\ tasks[t].run.outputs = run.outputs

\* with no example_id configured, both evaluators were called with a copy whose
\* reference is None although the persisted run carries one
C19_Witness ==
    /\ example_id = None /\ run.reference_example_id = "ex0"
    /\ Cardinality(TasksOf(run.id)) = 2
    /\ \A t \in TasksOf(run.id) :
          /\ tasks[t].calls # <<>>
          /\ tasks[t].calls[1].run.reference_example_id = None

\* ---------------------------------------------------------------- C12
\* C12: a wait_for_futures call whose snapshot holds a failed future does not end
\* with an exception, and when it has returned every future of the snapshot,
\* the failed ones too, is out of self.futures.
C12_JoinReturnsDespiteFailures ==
    \A j \in Joiners :
        (\E t \in snap[j] : tasks[t].state = "failed") =>
            /\ pcJ[j] # "raised"
            /\ pcJ[j] = "returned" => snap[j] \cap futures = {}

\* ---------------------------------------------------------------- C13
RECURSIVE SumIdle(_)
SumIdle(D) ==
    IF D = {} THEN 0
    ELSE LET d == CHOOSE x \in D : TRUE IN idle[d] + SumIdle(D \ {d})

\* the worker threads of the pool that hold no work item
IdleWorkers == SumIdle(Destinations)

\* C13: the number of tasks being executed never exceeds max_workers when a
\* positive max_workers is given, and max(len(evaluators), 1) otherwise; a task
\* not yet started is on the queue, once, or in the hands of a worker thread of
\* its own that is about to start it: the threads that hold a task and the idle
\* ones add up to the pool size.
C13_RunningWithinPool ==
    LET size == IF max_workers # <<>> /\ max_workers[1] > 0
                THEN max_workers[1] ELSE Max(evaluators, 1)
    IN /\ Cardinality(Running) <= size
       /\ Cardinality(Running) + Cardinality(Taken) + IdleWorkers = size
       /\ \A k \in 1..Len(queue) :
             queue[k] \in DOMAIN tasks /\ tasks[queue[k]].state = "pending"
       /\ \A k, l \in 1..Len(queue) : queue[k] = queue[l] => k = l

\* two evaluators and max_workers = 1: one task runs, another one waits in the queue
C13_Witness ==
    /\ max_workers = <<1>> /\ evaluators = 2
    /\ Cardinality(Running) = 1 /\ queue # <<>>

\* ---------------------------------------------------------------- C14
\* a call with an empty snapshot can return at once and is never in the removal
\* loop nor ended by an exception
C14_EmptyJoinCanReturn ==
    \A j \in Joiners :
        snap[j] = {} =>
            /\ pcJ[j] \in {"idle", "waiting", "returned"}
            /\ pcJ[j] = "waiting" => ENABLED JoinWait(j)

\* the steps of a call that found self.futures empty leave it as it is
C14_EmptyJoinChangesNothing ==
    \A j \in Joiners :
        (futures = {} /\ pcJ'[j] # pcJ[j] /\ pcJ'[j] \in {"waiting", "returned"})
            => futures' = {}

\* C14: wait_for_futures called with self.futures empty returns at once, without
\* an exception, and leaves self.futures empty.
C14_EmptyJoinReturns == []C14_EmptyJoinCanReturn /\ [][C14_EmptyJoinChangesNothing]_vars

\* a call made after a run was skipped, with nothing in self.futures, has returned
C14_Witness ==
    \E j \in Joiners :
        /\ pcJ[j] = "returned" /\ snap[j] = {} /\ futures = {}
        /\ nCalls >= 1 /\ nJoins >= 1

\* ---------------------------------------------------------------- C15
\* C15: with a project_name every evaluate_run call is made inside the scope of
\* that project and the tag "eval"; without one every call is made outside any
\* scope.
C15_ScopedIffProjectName ==
    \A t \in DOMAIN tasks : \A k \in 1..Len(tasks[t].calls) :
        tasks[t].calls[k].scope =
            (IF project_name # None THEN <<project_name, "eval">> ELSE Baseline)

\* ---------------------------------------------------------------- C16
\* C16: a task is failed exactly when an evaluate_run call made for it
\* raised; that call is its last one and was logged once, with the run id and the
\* evaluator; a completed task has only calls that returned and nothing logged.
C16_FailedIffRaised ==
    \A t \in DOMAIN tasks :
        LET c == tasks[t].calls IN
        /\ \A k \in 1..Len(c) : ~Ok(c[k]) => k = Len(c)
        /\ tasks[t].state = "failed" =>
              /\ c # <<>> /\ ~Ok(c[Len(c)])
              /\ tasks[t].logged = << <<tasks[t].run.id, tasks[t].evaluator>> >>
        /\ tasks[t].state = "completed" =>
              /\ c # <<>>
              /\ \A k \in 1..Len(c) : Ok(c[k])
              /\ tasks[t].logged = <<>>

\* ---------------------------------------------------------------- C17
\* C17: every submitted task gets done, and every wait_for_futures call that has
\* taken its snapshot returns.
C17_TasksFinishJoinsReturn ==
    /\ \A t \in 1..MaxTasks :
          (t \in DOMAIN tasks) ~> (t \in DOMAIN tasks /\ Terminal(t))
    /\ \A j \in Joiners : Active(j) ~> (pcJ[j] = "returned")

\* ---------------------------------------------------------------- C18
\* C18: outside an evaluate_run call every worker thread, idle or inside
\* _evaluate_in_project, reports to the destination it had before any scope was
\* entered, also after a scoped call that raised; a call made outside the with
\* block is made in that destination.
C18_ScopeLeftAfterCall ==
    /\ \A d \in Destinations \ {Baseline} : idle[d] = 0
    /\ \A t \in DOMAIN tasks :
          /\ tasks[t].dest = Baseline
          /\ (project_name = None /\ tasks[t].calls # <<>>)
                => tasks[t].calls[1].scope = Baseline

\* on a pool of one thread a scoped call raised, and the next task's call outside
\* the with block was made by the same thread
C18_Witness ==
    /\ PoolSize = 1 /\ Len(tasks) >= 2
    /\ tasks[1].state = "failed"
    /\ tasks[1].calls[Len(tasks[1].calls)].scope # Baseline
    /\ tasks[2].calls # <<>>
    /\ tasks[2].calls[1].scope = Baseline

\* ---------------------------------------------------------------- C20
\* C20: every future that was added to self.futures and is not done is in
\* self.futures, and every future a wait_for_futures call removed was done.
C20_OnlyDoneTasksLeave ==
    /\ \A t \in DOMAIN tasks : (~Terminal(t) /\ t # fut) => t \in futures
    /\ \A t \in removed : Terminal(t)

\* a join removed a done future while another future, not done, stays registered
C20_Witness ==
    /\ removed # {}
    /\ \E u \in futures : ~Terminal(u)
    /\ \E j \in Joiners : pcJ[j] = "returned" /\ snap[j] # {}

====
